---- MODULE Spec2Model ----
(***************************************************************************)
(* The visitor-pass request pipeline of visitors/middleware.py:            *)
(*   VisitorRequestMiddleware  (Token Extractor)                           *)
(*   VisitorSessionMiddleware  (Session Synchronizer)                      *)
(*   VisitorCountMiddleware    (Usage Limiter)                             *)
(*   VisitorDebugMiddleware    (Diagnostic Observer, only under DEBUG)     *)
(* run by concurrent workers against one table of Visitor rows and a       *)
(* session store.  Every worker holds its own in-memory copy of the row it *)
(* loaded (request.visitor); Visitor.save() writes that copy back.         *)
(* The Visitor entity (visitors/models.py) and the session helpers         *)
(* (visitors/session.py) follow the design document, sections 3, 4 and 6.  *)
(***************************************************************************)
EXTENDS Integers, FiniteSets, Sequences, TLC

\* ---- program constants (visitors/settings.py) ----
VISITOR_TOKEN_EXPIRY == 300
DEFAULT_MAX_LINK_USAGES_ALLOWED == 10

\* ---- bounds of the model ----
NumWorkers == 2
NumSessions == 1
NumVisitors == 2
\* the clock stops here
MaxTime == 301
\* requests of visitors served in one run of the concurrent system
MaxRequests == 3
\* requests of visitors served in one run of the one-worker system
MaxSeqRequests == 13
\* max_usages_allowed of the visitors of the concurrent system
SmallMaxUsages == 1

Workers == 1..NumWorkers
Sessions == 1..NumSessions
\* uuids of the rows of the Visitor table
Visitors == 1..NumVisitors
\* the falsy value of request.GET.get(...) / session.get(...): no uuid
NoUuid == 0
\* a well-formed uuid that matches no row of the table
UnknownUuid == NumVisitors + 1
Uuids == Visitors \cup {UnknownUuid}
\* request.visitor = None
NoVisitor == [uuid |-> NoUuid, is_active |-> FALSE, usage_count |-> 0]

VARIABLES
    db,       \* Visitor table: uuid -> row
    session,  \* session store: session -> stashed uuid (NoUuid: key absent)
    req,      \* per worker: the request it is handling and where it stands
    now,      \* the clock, in seconds (tz_now)
    hist,     \* history: per visitor, the requests the Usage Limiter counted
              \* and those that left it with the visitor flag true, and the
              \* number of counted requests at which the run ends
    chain     \* settings.DEBUG and what constructing VisitorDebugMiddleware
              \* gave when the middleware chain was built

vars == <<db, session, req, now, hist, chain>>

\* ---- Visitor entity (visitors/models.py) ----

\* the in-memory instance of a row, as Visitor.objects.get returns it
Load(v) == [uuid |-> v, is_active |-> db[v].is_active, usage_count |-> db[v].usage_count]

\* Visitor.has_expired is the negation: within the token expiry window?
NotExpired(v) == now - db[v].created_at <= VISITOR_TOKEN_EXPIRY

\* the validity predicate Visitor.validate() tests
IsValid(v) == db[v].is_active /\ NotExpired(v)

\* Visitor.save(): the instance's fields are written over the stored row
Save(table, inst) ==
    [table EXCEPT ![inst.uuid].is_active = inst.is_active,
                  ![inst.uuid].usage_count = inst.usage_count]

\* Visitor.deactivate(): the stored row is marked inactive
Deactivate(table, v) == [table EXCEPT ![v].is_active = FALSE]

\* ---- session helpers (visitors/session.py) ----
\* (faulty variant: an identifier the session already holds is kept)
stash_visitor_uuid_SetDefault(store, s, inst) ==
    IF store[s] = NoUuid THEN [store EXCEPT ![s] = inst.uuid] ELSE store

stash_visitor_uuid(store, s, inst) == [store EXCEPT ![s] = inst.uuid]
get_visitor_uuid(store, s) == store[s]
clear_visitor_uuid(store, s) == [store EXCEPT ![s] = NoUuid]

\* ---- history kept with a request ----
\* what the stored row showed at the moment the request was attributed to a
\* visitor: was it active, was it within the token expiry window
NothingSeen == [active |-> FALSE, fresh |-> FALSE]
SeenOf(v) == [active |-> db[v].is_active, fresh |-> NotExpired(v)]

\* what the querystring token of the request named when the request arrived
TokenKind(token) ==
    IF token = NoUuid THEN "none"
    ELSE IF token \notin Visitors THEN "unknown"
    ELSE IF now - db[token].created_at > VISITOR_TOKEN_EXPIRY THEN "expired"
    ELSE IF ~db[token].is_active THEN "inactive"
    ELSE "valid"

\* ---- what a stage did for a request ----
\* the three stages, by the attribute each one serves
Stages == {"request", "session", "count"}
\* visitor lookups (Visitor.objects.get), writes of Visitor rows, and
\* accesses to the session entry made by one stage for one request
NoIo == [lookups |-> 0, writes |-> 0, session_ops |-> 0]
\* no stage, nor the Diagnostic Observer, has called get_response yet
NoCalls == [stage \in Stages \cup {"debug"} |-> 0]

\* self.get_response(request): the stage hands the request on
\* (faulty variant: a branch calls get_response and falls through to the
\* final call)
HandOn_Twice(calls, stage) == [calls EXCEPT ![stage] = @ + 2]

HandOn(calls, stage) == [calls EXCEPT ![stage] = @ + 1]

\* ---- the downstream handler and its response ----
NoResponse == [served |-> FALSE, visitor |-> NoUuid, is_visitor |-> FALSE]
\* the handler the tests install, lambda r: r: its response is the request
\* as the handler received it
Handler(r) == [served |-> TRUE, visitor |-> r.visitor.uuid, is_visitor |-> r.is_visitor]

\* return self.get_response(request)
\* (faulty variant: the stage calls get_response and returns nothing)
PassUp_Dropped(response) == NoResponse

PassUp(response) == response

\* ---- VisitorDebugMiddleware.__init__ ----
\* (faulty variant: the stage is constructed whatever settings.DEBUG is)
VisitorDebugMiddlewareInit_Always(debug) == "constructed"

\* raise MiddlewareNotUsed unless settings.DEBUG
VisitorDebugMiddlewareInit(debug) ==
    IF ~debug THEN "MiddlewareNotUsed" ELSE "constructed"

\* the chain built at start-up under settings.DEBUG = debug: a middleware
\* whose construction raises MiddlewareNotUsed is left out of the chain
BuildChain(debug) == [DEBUG |-> debug, observer |-> VisitorDebugMiddlewareInit(debug)]

\* the Diagnostic Observer follows the Usage Limiter in the chain
ObserverInChain == chain.observer = "constructed"

\* the request leaves the Usage Limiter for the Diagnostic Observer
Observed(r) == [r EXCEPT !.pc = "debug", !.calls = HandOn(r.calls, "count")]

\* the request leaves the last stage: the handler runs and its response
\* travels back through the three stages
Served(r) ==
    [r EXCEPT !.pc = "done",
              !.calls = HandOn(r.calls, "count"),
              !.response = PassUp(PassUp(PassUp(Handler(r))))]

\* ---- initial state ----
IdleRequest ==
    [pc |-> "idle", token |-> NoUuid, sess |-> 1, visitor |-> NoVisitor,
     is_visitor |-> FALSE, via |-> "none", seen |-> NothingSeen,
     kind |-> "none", stashed |-> NoUuid,
     io |-> [stage \in Stages |-> NoIo], calls |-> NoCalls,
     response |-> NoResponse]

\* Visitors created out of band (Visitor.objects.create): active, unused,
\* created at time 0; the clock stands one second before their expiry.
InitWith(max_usages, limit) ==
    /\ db = [v \in Visitors |->
                [is_active |-> TRUE, usage_count |-> 0,
                 max_usages_allowed |-> max_usages[v], created_at |-> 0]]
    /\ hist = [limit |-> limit, counted |-> [v \in Visitors |-> 0],
               granted |-> [v \in Visitors |-> 0]]
    /\ session \in [Sessions -> {NoUuid, UnknownUuid}]
    /\ req = [w \in Workers |-> IdleRequest]
    /\ now = VISITOR_TOKEN_EXPIRY - 1

\* concurrent system: every visitor is allowed a few usages; production
\* settings (DEBUG off)
Init ==
    /\ InitWith([v \in Visitors |-> SmallMaxUsages], MaxRequests)
    /\ chain = BuildChain(FALSE)

\* one worker, every visitor allowed a few usages, under either setting of
\* DEBUG
InitDebug ==
    /\ InitWith([v \in Visitors |-> SmallMaxUsages], MaxRequests)
    /\ \E debug \in BOOLEAN : chain = BuildChain(debug)

\* one-worker system: visitor 1 is allowed the default number of usages
InitSeq ==
    /\ InitWith([v \in Visitors |->
                    IF v = 1 THEN DEFAULT_MAX_LINK_USAGES_ALLOWED ELSE SmallMaxUsages],
                MaxSeqRequests)
    /\ chain = BuildChain(FALSE)

RECURSIVE SumOver(_, _)
SumOver(f, S) ==
    IF S = {} THEN 0
    ELSE LET x == CHOOSE y \in S : TRUE IN f[x] + SumOver(f, S \ {x})

\* requests counted so far, and requests that may still come to be counted
Counted == SumOver(hist.counted, Visitors)
InFlight == Cardinality({w \in Workers : req[w].pc \in {"session", "count"}})

\* the contexts a request object can carry into the pipeline
PriorContexts ==
    {[visitor |-> NoVisitor, is_visitor |-> FALSE]}
        \cup {[visitor |-> Load(v), is_visitor |-> TRUE] : v \in Visitors}

\* ---- VisitorRequestMiddleware.__call__ ----
\* (faulty variant: request.visitor and request.user.is_visitor are not reset first)
TokenContext_KeepPrior(token, prior_visitor, prior_flag) ==
    IF token \in Visitors /\ IsValid(token)
    THEN [visitor |-> Load(token), is_visitor |-> TRUE]
    ELSE [visitor |-> prior_visitor, is_visitor |-> prior_flag]

\* (faulty variant: visitor.validate() is not called)
TokenContext_NoValidate(token, prior_visitor, prior_flag) ==
    IF token \in Visitors
    THEN [visitor |-> Load(token), is_visitor |-> TRUE]
    ELSE [visitor |-> NoVisitor, is_visitor |-> FALSE]

\* The context the stage leaves on the request: request.visitor and
\* request.user.is_visitor are reset first, and set only when the token names
\* a stored visitor that validates.
TokenContext(token, prior_visitor, prior_flag) ==
    IF token = NoUuid THEN [visitor |-> NoVisitor, is_visitor |-> FALSE]
    ELSE IF token \notin Visitors THEN [visitor |-> NoVisitor, is_visitor |-> FALSE]
    ELSE IF ~IsValid(token) THEN [visitor |-> NoVisitor, is_visitor |-> FALSE]
    ELSE [visitor |-> Load(token), is_visitor |-> TRUE]

\* (faulty variant: the row is fetched again to validate it)
TokenIo_LookupTwice(token) ==
    [lookups |-> IF token = NoUuid THEN 0 ELSE 2,
     writes |-> IF token \in Visitors /\ ~IsValid(token) THEN 1 ELSE 0,
     session_ops |-> 0]

\* What the stage does besides setting the context: no lookup without a
\* token, else one Visitor.objects.get; one write when validate() fails (the
\* deactivation); nothing in the body touches request.session.
TokenIo(token) ==
    [lookups |-> IF token = NoUuid THEN 0 ELSE 1,
     writes |-> IF token \in Visitors /\ ~IsValid(token) THEN 1 ELSE 0,
     session_ops |-> 0]

\* A request arrives at worker w with querystring token `token` in browser
\* session s, carrying the context `prior`.
VisitorRequestMiddleware(w, token, s, prior) ==
    LET ctx == TokenContext(token, prior.visitor, prior.is_visitor)
    IN  /\ req[w].pc \in {"idle", "done"}
        /\ Counted + InFlight < hist.limit
        /\ req' = [req EXCEPT ![w] =
                    [pc |-> "session", token |-> token, sess |-> s,
                     visitor |-> ctx.visitor, is_visitor |-> ctx.is_visitor,
                     via |-> IF ctx.visitor # NoVisitor THEN "token" ELSE "none",
                     seen |-> IF ctx.visitor # NoVisitor
                              THEN SeenOf(ctx.visitor.uuid) ELSE NothingSeen,
                     kind |-> TokenKind(token), stashed |-> NoUuid,
                     io |-> [stage \in Stages |->
                                IF stage = "request" THEN TokenIo(token) ELSE NoIo],
                     calls |-> HandOn(NoCalls, "request"),
                     response |-> NoResponse]]
        /\ db' = IF token \in Visitors /\ ~IsValid(token)
                 THEN Deactivate(db, token)
                 ELSE db
        /\ UNCHANGED <<session, now, hist, chain>>

\* ---- VisitorSessionMiddleware.__call__ ----
\* (faulty variant: the lookup is filtered by is_active=False)
ActiveVisitorExists_Inactive(visitor_uuid) ==
    visitor_uuid \in Visitors /\ ~db[visitor_uuid].is_active

\* (faulty variant: the lookup is not filtered by is_active)
ActiveVisitorExists_AnyRow(visitor_uuid) == visitor_uuid \in Visitors

\* Visitor.objects.get(uuid=visitor_uuid, is_active=True) finds a row
ActiveVisitorExists(visitor_uuid) ==
    visitor_uuid \in Visitors /\ db[visitor_uuid].is_active

VisitorSessionMiddleware(w) ==
    LET r == req[w]
        visitor_uuid == get_visitor_uuid(session, r.sess)
        on == [r EXCEPT !.pc = "count", !.calls = HandOn(r.calls, "session")]
        read == [on EXCEPT !.stashed = visitor_uuid]
    IN  /\ r.pc = "session"
        /\ IF r.visitor # NoVisitor
           THEN /\ session' = stash_visitor_uuid(session, r.sess, r.visitor)
                /\ req' = [req EXCEPT ![w] =
                            [on EXCEPT !.io["session"].session_ops = 1]]
           ELSE IF visitor_uuid = NoUuid
           THEN /\ req' = [req EXCEPT ![w] =
                            [read EXCEPT !.io["session"].session_ops = 1]]
                /\ UNCHANGED session
           ELSE IF ~ActiveVisitorExists(visitor_uuid)
           THEN /\ session' = clear_visitor_uuid(session, r.sess)
                /\ req' = [req EXCEPT ![w] =
                            [read EXCEPT !.io["session"].session_ops = 2,
                                         !.io["session"].lookups = 1]]
           ELSE /\ req' = [req EXCEPT ![w] =
                            [read EXCEPT !.visitor = Load(visitor_uuid),
                                         !.is_visitor = TRUE,
                                         !.via = "session",
                                         !.seen = SeenOf(visitor_uuid),
                                         !.io["session"].session_ops = 1,
                                         !.io["session"].lookups = 1]]
                /\ UNCHANGED session
        /\ UNCHANGED <<db, now, hist, chain>>

\* ---- VisitorCountMiddleware.__call__ ----
\* (faulty variant: the usage is counted twice)
Incremented_Twice(inst) == [inst EXCEPT !.usage_count = @ + 2]

\* visitor.usage_count += 1, on the instance the request carries
Incremented(inst) == [inst EXCEPT !.usage_count = @ + 1]

\* (faulty variant: the visitor is revoked on reaching the limit, not on exceeding it)
LimitExceeded_AtLimit(inst) == db[inst.uuid].max_usages_allowed <= inst.usage_count

\* (faulty variant: the operands of the comparison are swapped)
LimitExceeded_Swapped(inst) == inst.usage_count < db[inst.uuid].max_usages_allowed

\* visitor.max_usages_allowed < visitor.usage_count
LimitExceeded(inst) == db[inst.uuid].max_usages_allowed < inst.usage_count

\* up to the first save
VisitorCountIncrement(w) ==
    LET r == req[w]
        visitor == Incremented(r.visitor)
    IN  /\ r.pc = "count"
        /\ IF r.visitor = NoVisitor
           THEN /\ req' = [req EXCEPT ![w] =
                            IF ObserverInChain THEN Observed(r) ELSE Served(r)]
                /\ UNCHANGED <<db, hist>>
           ELSE /\ db' = Save(db, visitor)
                /\ req' = [req EXCEPT ![w].visitor = visitor,
                                      ![w].io["count"].writes = @ + 1,
                                      ![w].pc = "limit"]
                /\ hist' = [hist EXCEPT !.counted[visitor.uuid] = @ + 1]
        /\ UNCHANGED <<session, now, chain>>

\* the limit test and what follows it
VisitorCountLimit(w) ==
    LET r == req[w]
        visitor == [r.visitor EXCEPT !.is_active = FALSE]
        revoked == [r EXCEPT !.visitor = visitor,
                             !.is_visitor = FALSE,
                             !.io["count"].writes = @ + 1]
    IN  /\ r.pc = "limit"
        /\ IF LimitExceeded(r.visitor)
           THEN /\ db' = Save(db, visitor)
                /\ req' = [req EXCEPT ![w] =
                            IF ObserverInChain THEN Observed(revoked) ELSE Served(revoked)]
                /\ UNCHANGED hist
           ELSE /\ req' = [req EXCEPT ![w] =
                            IF ObserverInChain THEN Observed(r) ELSE Served(r)]
                /\ hist' = IF r.is_visitor
                           THEN [hist EXCEPT !.granted[r.visitor.uuid] = @ + 1]
                           ELSE hist
                /\ UNCHANGED db
        /\ UNCHANGED <<session, now, chain>>

\* ---- VisitorDebugMiddleware.__call__ ----
\* logs the flag and the visitor, then hands the request to the handler
VisitorDebugMiddleware(w) ==
    LET r == req[w]
    IN  /\ r.pc = "debug"
        /\ req' = [req EXCEPT ![w] =
                    [r EXCEPT !.pc = "done",
                              !.calls = HandOn(r.calls, "debug"),
                              !.response = PassUp(PassUp(PassUp(PassUp(Handler(r)))))]]
        /\ UNCHANGED <<db, session, now, hist, chain>>

\* ---- the clock ----
Tick ==
    /\ now < MaxTime
    /\ now' = now + 1
    /\ UNCHANGED <<db, session, req, hist, chain>>

Step(w) ==
    \/ \E token \in {NoUuid} \cup Uuids, s \in Sessions, prior \in PriorContexts :
          VisitorRequestMiddleware(w, token, s, prior)
    \/ VisitorSessionMiddleware(w)
    \/ VisitorCountIncrement(w)
    \/ VisitorCountLimit(w)

Next ==
    \/ \E w \in Workers : Step(w)
    \/ Tick

Spec == Init /\ [][Next]_vars

\* one worker: requests are served one after the other
NextSeq ==
    \/ Step(1)
    \/ Tick

SpecSeq == InitSeq /\ [][NextSeq]_vars

\* concurrent workers serving requests of one visitor in one browser
\* session: with its token or with the session alone
NextRace ==
    \/ \E w \in Workers :
          \/ \E token \in {NoUuid, 1} :
                VisitorRequestMiddleware(w, token, 1, [visitor |-> NoVisitor, is_visitor |-> FALSE])
          \/ VisitorSessionMiddleware(w)
          \/ VisitorCountIncrement(w)
          \/ VisitorCountLimit(w)
    \/ Tick

SpecRace == Init /\ [][NextRace]_vars

\* one worker, with the Diagnostic Observer in the chain when DEBUG is on
NextDebug ==
    \/ Step(1)
    \/ VisitorDebugMiddleware(1)
    \/ Tick

SpecDebug == InitDebug /\ [][NextDebug]_vars

\* ---- what the claims speak about ----
\* worker w has finished the pipeline for its request
Done(w) == req[w].pc = "done"
\* the request of worker w was attributed to visitor v and counted
CountedFor(w, v) == Done(w) /\ req[w].visitor.uuid = v
\* no request is between the Usage Limiter's first save and its limit test
NoneAtLimit(v) == \A w \in Workers : ~(req[w].pc = "limit" /\ req[w].visitor.uuid = v)

\* C1: requests served one after the other to a visitor created active with
\* usage_count 0 and max_usages_allowed max (10 for visitor 1; the same is
\* stated of the other visitors and their limits).  When the k-th counted
\* request ends, the stored usage_count is k; for k <= max the request ends
\* with the visitor flag true; request max + 1 (the 11th) ends with
\* usage_count max + 1, is_active false and the flag false; from then on
\* is_active is false and every request that ends, by the token or by the
\* session of that visitor, ends with the flag false.
UsageLimitScenario ==
    \A v \in Visitors :
        LET k == hist.counted[v]
            max == db[v].max_usages_allowed
        IN  /\ k <= max + 1
            /\ NoneAtLimit(v) /\ k = max + 1 => ~db[v].is_active
            /\ \A w \in Workers :
                  /\ CountedFor(w, v) =>
                        /\ db[v].usage_count = k
                        /\ k <= max => req[w].is_visitor
                        /\ k = max + 1 => ~req[w].is_visitor /\ ~db[v].is_active
                  /\ Done(w) /\ ~db[v].is_active
                        /\ \/ req[w].visitor.uuid = v
                           \/ /\ req[w].token \in {v, NoUuid, UnknownUuid}
                              /\ session[req[w].sess] \in {v, NoUuid, UnknownUuid}
                        => ~req[w].is_visitor

\* the 12th request, presenting the token after the 11th tripped the limit
UsageLimitScenarioReached ==
    \E w \in Workers, v \in Visitors :
        /\ db[v].max_usages_allowed = DEFAULT_MAX_LINK_USAGES_ALLOWED
        /\ Done(w) /\ req[w].token = v
        /\ req[w].visitor = NoVisitor /\ ~req[w].is_visitor
        /\ hist.counted[v] = DEFAULT_MAX_LINK_USAGES_ALLOWED + 1
        /\ db[v].usage_count = DEFAULT_MAX_LINK_USAGES_ALLOWED + 1
        /\ ~db[v].is_active
        /\ now - db[v].created_at <= VISITOR_TOKEN_EXPIRY

\* C2: deactivation is terminal: in every step of every execution, also when
\* requests of several workers interleave, a visitor whose stored is_active
\* is false keeps is_active false.
DeactivationIsTerminal ==
    [][\A v \in Visitors : ~db[v].is_active => ~db'[v].is_active]_vars

\* C3: the stored usage_count never decreases: in every step of every
\* execution, also when requests that each load the visitor, add one and
\* save interleave, usage_count after the step is >= usage_count before it.
UsageCountNonDecreasing ==
    [][\A v \in Visitors : db'[v].usage_count >= db[v].usage_count]_vars

\* no request is anywhere between its arrival and the end of the pipeline
Quiescent == \A w \in Workers : req[w].pc \in {"idle", "done"}

\* C4: usage_count is incremented exactly once per request attributed to the
\* visitor: when the N requests that reached the Usage Limiter with visitor
\* v have all completed, in whatever interleaving, the stored usage_count is
\* the usage_count at creation (0) plus N.
OneIncrementPerRequest ==
    Quiescent => \A v \in Visitors : db[v].usage_count = 0 + hist.counted[v]

\* C5 (as claimed): every request that ends the pipeline with the visitor
\* flag true was attributed to a visitor that was valid at that moment:
\* stored is_active true and within the token expiry window, whether the
\* visitor came from the URL token or from the session.
ValidityCheckedOnEveryRequest ==
    \A w \in Workers :
        Done(w) /\ req[w].is_visitor => req[w].seen.active /\ req[w].seen.fresh

\* C5 (amended): every request that ends the pipeline with the visitor flag
\* true was attributed to a visitor whose stored is_active was true at that
\* moment; a visitor taken from the URL token was also within the token
\* expiry window; a visitor rehydrated from the session is not tested
\* against the expiry window.
ActiveCheckedOnEveryRequest ==
    \A w \in Workers :
        Done(w) /\ req[w].is_visitor =>
            /\ req[w].visitor # NoVisitor
            /\ req[w].via \in {"token", "session"}
            /\ req[w].seen.active
            /\ req[w].via = "token" => req[w].seen.fresh

\* a request rehydrated from the session after the token expired ends as visitor
ExpiredSessionVisitorReached ==
    \E w \in Workers :
        /\ Done(w) /\ req[w].is_visitor /\ req[w].via = "session"
        /\ req[w].seen.active /\ ~req[w].seen.fresh

\* worker w has just run the Token Extractor on a newly arrived request
Arrives(w) == req[w].pc \in {"idle", "done"} /\ req'[w].pc = "session"

\* C6 (as claimed): a request that presents the token of an existing visitor
\* whose expiry window has elapsed ends with the visitor flag false and the
\* context null, and the stored visitor is inactive afterwards; so does a
\* later presentation of the same token.
ExpiredTokenEndsAsNonVisitor ==
    \A w \in Workers :
        Done(w) /\ req[w].kind = "expired" =>
            /\ ~req[w].is_visitor
            /\ req[w].visitor = NoVisitor
            /\ ~db[req[w].token].is_active

\* C6 (amended): when a request presents the token of an existing visitor
\* whose expiry window has elapsed, the Token Extractor leaves the visitor
\* flag false and the context null, and the stored visitor is inactive as
\* the stage completes; every later presentation of the token is treated
\* the same.  The request ends with the flag true only if the Session
\* Synchronizer rehydrated a visitor from the session.
ExpiredTokenDeactivates ==
    /\ [][\A w \in Workers :
            Arrives(w) /\ req'[w].kind = "expired" =>
                /\ ~req'[w].is_visitor
                /\ req'[w].visitor = NoVisitor
                /\ ~db'[req'[w].token].is_active]_vars
    /\ [](\A w \in Workers :
            req[w].kind = "expired" /\ (req[w].is_visitor \/ req[w].visitor # NoVisitor) =>
                req[w].via = "session" /\ req[w].pc \in {"count", "limit", "done"})

\* an expired token was presented twice: the visitor, used before, is
\* inactive and the second request ended as non-visitor
ExpiredTokenReached ==
    \E w \in Workers :
        /\ Done(w) /\ req[w].kind = "expired"
        /\ ~req[w].is_visitor /\ req[w].visitor = NoVisitor
        /\ ~db[req[w].token].is_active
        /\ db[req[w].token].usage_count > 0

\* C7 (as claimed): a request whose token matches no stored visitor leaves
\* the pipeline with the visitor flag false and the context null, whatever
\* the session and the table hold.
UnknownTokenEndsAsNonVisitor ==
    \A w \in Workers :
        Done(w) /\ req[w].kind = "unknown" =>
            ~req[w].is_visitor /\ req[w].visitor = NoVisitor

\* C7 (amended): a request whose token matches no stored visitor leaves the
\* Token Extractor with the visitor flag false and the context null; it
\* leaves the pipeline so too unless the session holds the identifier of a
\* stored visitor with is_active true, which the Session Synchronizer then
\* puts in the context.
UnknownTokenFallsBackToSession ==
    \A w \in Workers :
        req[w].kind = "unknown" =>
            /\ req[w].pc = "session" => ~req[w].is_visitor /\ req[w].visitor = NoVisitor
            /\ req[w].is_visitor \/ req[w].visitor # NoVisitor =>
                  /\ req[w].via = "session"
                  /\ req[w].visitor.uuid \in Visitors
                  /\ req[w].seen.active

\* an unknown token with a session that names no active visitor: the request
\* ended as non-visitor
UnknownTokenReached ==
    \E w \in Workers :
        /\ Done(w) /\ req[w].kind = "unknown" /\ req[w].token = UnknownUuid
        /\ ~req[w].is_visitor /\ req[w].visitor = NoVisitor
        /\ \E v \in Visitors : db[v].is_active

\* C8: when the Token Extractor has run, the visitor flag is true and the
\* context holds visitor V exactly when the token is the identifier of a
\* stored visitor V that is active and not expired; otherwise (no token,
\* unknown token, inactive or expired visitor) the flag is false and the
\* context null, whatever context the request carried into the stage.
TokenExtractorOutcome ==
    \A w \in Workers :
        req[w].pc = "session" =>
            IF req[w].kind = "valid"
            THEN /\ req[w].is_visitor
                 /\ req[w].visitor.uuid = req[w].token
                 /\ req[w].seen.active /\ req[w].seen.fresh
            ELSE ~req[w].is_visitor /\ req[w].visitor = NoVisitor

\* the stage has accepted the token of a visitor that was used before
TokenExtractorAccepted ==
    \E w \in Workers :
        /\ req[w].pc = "session" /\ req[w].kind = "valid"
        /\ req[w].is_visitor /\ req[w].visitor.uuid = req[w].token
        /\ req[w].visitor.usage_count > 0

\* the request of worker w has passed the Session Synchronizer
PastSession(w) == req[w].pc \in {"count", "limit", "done"}

ReadsStale(w) ==
    /\ req[w].pc = "session" /\ req'[w].pc = "count"
    /\ req[w].visitor = NoVisitor
    /\ session[req[w].sess] # NoUuid
    /\ \A v \in Visitors : session[req[w].sess] = v => ~db[v].is_active

SelfHealing ==
    /\ [][\A w \in Workers :
            ReadsStale(w) =>
                /\ session'[req[w].sess] = NoUuid
                /\ ~req'[w].is_visitor /\ req'[w].visitor = NoVisitor]_vars
    /\ [](\A w \in Workers :
            PastSession(w) /\ req[w].via = "none" =>
                /\ ~req[w].is_visitor /\ req[w].visitor = NoVisitor
                /\ session[req[w].sess] = NoUuid)

\* a stale identifier of a deactivated visitor was read and removed
SelfHealingReached ==
    \E w \in Workers :
        /\ Done(w) /\ req[w].kind = "none" /\ req[w].stashed \in Visitors
        /\ ~db[req[w].stashed].is_active
        /\ ~req[w].is_visitor /\ req[w].visitor = NoVisitor
        /\ session[req[w].sess] = NoUuid

\* ---- the Usage Limiter, step by step ----
\* worker w takes the Usage Limiter's step up to the first save, for a visitor
CountsUsage(w) ==
    req[w].pc = "count" /\ req[w].visitor # NoVisitor /\ req'[w].pc = "limit"
\* worker w takes the Usage Limiter's limit test and leaves the stage
TestsLimit(w) == req[w].pc = "limit" /\ req'[w].pc # "limit"

\* C11: when the Usage Limiter runs for a request whose context carries a
\* visitor with stored usage_count c, the stored usage_count becomes c + 1
\* (is_active and the flag are not touched by the increment); then, if
\* c + 1 > max_usages_allowed the stored is_active becomes false and the flag
\* false, and if c + 1 <= max_usages_allowed the stored is_active and the
\* flag stay as they were.  The request that brings the count to exactly
\* max_usages_allowed is not revoked.
UsageLimiterStep ==
    [][\A w \in Workers :
          LET v == req[w].visitor.uuid
          IN  /\ CountsUsage(w) =>
                    /\ req[w].visitor.usage_count = db[v].usage_count
                    /\ db'[v].usage_count = db[v].usage_count + 1
                    /\ db'[v].is_active = db[v].is_active
                    /\ req'[w].is_visitor = req[w].is_visitor
              /\ TestsLimit(w) =>
                    /\ db'[v].usage_count = db[v].usage_count
                    /\ IF db[v].usage_count > db[v].max_usages_allowed
                       THEN ~db'[v].is_active /\ ~req'[w].is_visitor
                       ELSE /\ db'[v].is_active = db[v].is_active
                            /\ req'[w].is_visitor = req[w].is_visitor]_vars

\* C11 witness: the request that brought visitor 1 to exactly its 10 allowed
\* usages has left the stage, and the visitor is still active and flagged
UsageLimiterAtLimitReached ==
    \E w \in Workers :
        /\ CountedFor(w, 1)
        /\ db[1].usage_count = db[1].max_usages_allowed
        /\ hist.counted[1] = DEFAULT_MAX_LINK_USAGES_ALLOWED
        /\ db[1].is_active /\ req[w].is_visitor

\* ---- what a request did ----
\* writes of Visitor rows made for the request of worker w, all stages together
WritesOf(w) ==
    req[w].io["request"].writes + req[w].io["session"].writes + req[w].io["count"].writes
\* the request of worker w came without a token and found no session entry
NonVisitor(w) ==
    req[w].pc # "idle" /\ req[w].token = NoUuid
        /\ (req[w].pc = "session" => session[req[w].sess] = NoUuid)
        /\ (req[w].pc # "session" => req[w].stashed = NoUuid)
\* a stage runs for the request of worker w, which has no token, while the
\* session holds no entry
NonVisitorStage(w) ==
    /\ req'[w] # req[w] /\ req'[w].token = NoUuid
    /\ IF req[w].pc \in {"count", "limit"}
       THEN req[w].stashed = NoUuid
       ELSE session[req'[w].sess] = NoUuid

\* C12: a request with no token and no session entry makes no write of a
\* Visitor row in any of the three stages; no stage that runs for it changes
\* a stored row or the session; it ends with the context null and the flag
\* false, and what comes back is exactly the downstream handler's response.
NonVisitorPassthrough ==
    /\ [][\A w \in Workers :
            NonVisitorStage(w) =>
                /\ db' = db
                /\ session' = session
                /\ req'[w].visitor = NoVisitor /\ ~req'[w].is_visitor]_vars
    /\ [](\A w \in Workers :
            NonVisitor(w) =>
                /\ WritesOf(w) = 0
                /\ req[w].visitor = NoVisitor /\ ~req[w].is_visitor
                /\ Done(w) => req[w].response = Handler(req[w]))

\* C12 witness: such a request has come back with the handler's response,
\* while a visitor of the table has been counted before
NonVisitorPassthroughReached ==
    \E w \in Workers :
        /\ Done(w) /\ NonVisitor(w)
        /\ req[w].response.served
        /\ \E v \in Visitors : db[v].usage_count > 0

\* C13: the writes of Visitor rows the Usage Limiter makes for one request:
\* none when the context carries no visitor; with a visitor, exactly one when
\* the incremented usage_count does not exceed max_usages_allowed and exactly
\* two when it does (so never none, never more than two).
UsageLimiterWrites ==
    \A w \in Workers :
        LET r == req[w]
            n == r.io["count"].writes
        IN  /\ r.pc \in {"idle", "session", "count"} => n = 0
            /\ r.pc = "limit" => n = 1
            /\ Done(w) =>
                  IF r.visitor = NoVisitor THEN n = 0
                  ELSE IF r.visitor.usage_count > db[r.visitor.uuid].max_usages_allowed
                  THEN n = 2
                  ELSE n = 1

\* C13 witness: the 11th request of visitor 1 has left the stage after two
\* writes, the first of which stored usage_count 11
UsageLimiterWritesReached ==
    \E w \in Workers :
        /\ CountedFor(w, 1)
        /\ req[w].visitor.usage_count = DEFAULT_MAX_LINK_USAGES_ALLOWED + 1
        /\ req[w].io["count"].writes = 2

\* ---- the Session Synchronizer with a visitor in the context ----
\* worker w runs the Session Synchronizer for a request whose context
\* already carries a visitor
StashesVisitor(w) ==
    req[w].pc = "session" /\ req[w].visitor # NoVisitor /\ req'[w].pc = "count"

\* C14: run with a visitor already in the context, the Session Synchronizer
\* leaves that visitor's identifier in the session of the request, whatever
\* the session held before, and leaves the other sessions, the context, the
\* flag and the stored rows as they were; it makes no visitor lookup; and
\* running it once more with the same context leaves the session exactly as
\* the first run left it.
SessionStashIdempotent ==
    [][\A w \in Workers :
          StashesVisitor(w) =>
              LET s == req[w].sess
              IN  /\ session'[s] = req[w].visitor.uuid
                  /\ \A t \in Sessions \ {s} : session'[t] = session[t]
                  /\ req'[w].visitor = req[w].visitor
                  /\ req'[w].is_visitor = req[w].is_visitor
                  /\ req'[w].io["session"].lookups = 0
                  /\ db' = db
                  /\ stash_visitor_uuid(session', s, req'[w].visitor) = session']_vars

\* C14 witness: the stage has run for a request identified by its token, and
\* the session holds that visitor's identifier, after requests of another
\* visitor were served
SessionStashReached ==
    \E w \in Workers, v \in Visitors :
        /\ req[w].pc = "count" /\ req[w].via = "token"
        /\ session[req[w].sess] = req[w].visitor.uuid
        /\ v # req[w].visitor.uuid /\ db[v].usage_count > 0

\* C15: in every request the Token Extractor makes at most one visitor lookup
\* (none without a token) and at most one write, which can only mark the row
\* the token names inactive; it makes no access to the session entry, and
\* the session is the same after the stage as before it.
TokenExtractorSideEffects ==
    [][\A w \in Workers :
          Arrives(w) =>
              LET io == req'[w].io["request"]
                  token == req'[w].token
              IN  /\ io.lookups <= 1 /\ io.writes <= 1
                  /\ token = NoUuid => io.lookups = 0
                  /\ io.lookups = 0 => io.writes = 0
                  /\ io.writes = 0 => db' = db
                  /\ \A v \in Visitors :
                        \/ db'[v] = db[v]
                        \/ /\ v = token /\ io.writes = 1
                           /\ db'[v] = [db[v] EXCEPT !.is_active = FALSE]
                  /\ io.session_ops = 0
                  /\ session' = session]_vars

\* C15 witness: the stage has looked up the row of an expired token once
\* and deactivated it with one write, in a session that holds an identifier
TokenExtractorSideEffectsReached ==
    \E w \in Workers :
        /\ req[w].pc = "session" /\ req[w].kind = "expired"
        /\ req[w].io["request"].lookups = 1 /\ req[w].io["request"].writes = 1
        /\ ~db[req[w].token].is_active
        /\ session[req[w].sess] \in Visitors

\* ---- the Diagnostic Observer ----
\* worker w runs the Diagnostic Observer
Observes(w) == req[w].pc = "debug" /\ req'[w].pc = "done"

\* C16: with settings.DEBUG false the construction of the Diagnostic Observer
\* ends in MiddlewareNotUsed and the stage runs for no request; when the
\* stage runs it changes neither the context, the flag, the session nor any
\* stored row.
DiagnosticObserver ==
    /\ [](~chain.DEBUG =>
            /\ chain.observer = "MiddlewareNotUsed"
            /\ \A w \in Workers : req[w].pc # "debug" /\ req[w].calls["debug"] = 0)
    /\ [][\A w \in Workers :
            Observes(w) =>
                /\ req'[w].visitor = req[w].visitor
                /\ req'[w].is_visitor = req[w].is_visitor
                /\ session' = session
                /\ db' = db]_vars

\* C16 witness: with DEBUG on, the stage has run for the request that
\* tripped the usage limit of its visitor
DiagnosticObserverReached ==
    \E w \in Workers :
        /\ chain.DEBUG /\ Done(w) /\ req[w].calls["debug"] = 1
        /\ req[w].visitor # NoVisitor /\ ~req[w].is_visitor
        /\ ~db[req[w].visitor.uuid].is_active

\* C17: for a visitor that starts active with usage_count 0, in every
\* execution, concurrent requests included, the number of requests that have
\* left the Usage Limiter with the visitor flag still true for that visitor
\* never exceeds its max_usages_allowed.
UsageCeiling ==
    \A v \in Visitors : hist.granted[v] <= db[v].max_usages_allowed

\* ---- delegation ----
\* how often each of the three stages has called get_response for the
\* request of worker w
CallsOf(w) == [stage \in Stages |-> req[w].calls[stage]]

\* C18: every stage, on every branch, calls the rest of the pipeline exactly
\* once and only when its own changes to the context are made, and returns
\* the downstream response unchanged.  So a request is first past the Token
\* Extractor alone, then past the Session Synchronizer, then past the Usage
\* Limiter; and every request, whatever its token, its session and the state
\* of its visitor, ends with the response the handler gave for the context
\* the request ends with.
DelegatesExactlyOnce ==
    \A w \in Workers :
        /\ req[w].pc = "idle" => CallsOf(w) = [stage \in Stages |-> 0]
        /\ req[w].pc = "session" =>
              CallsOf(w) = [stage \in Stages |-> IF stage = "request" THEN 1 ELSE 0]
        /\ req[w].pc \in {"count", "limit"} =>
              CallsOf(w) = [stage \in Stages |-> IF stage = "count" THEN 0 ELSE 1]
        /\ req[w].pc \in {"debug", "done"} => CallsOf(w) = [stage \in Stages |-> 1]
        /\ ~Done(w) => req[w].response = NoResponse
        /\ Done(w) => req[w].response.served /\ req[w].response = Handler(req[w])

\* C18 witness: the request that tripped the usage limit has come back: each
\* stage called on once, and the handler was given the context with the flag
\* already cleared
DelegatesExactlyOnceReached ==
    \E w \in Workers :
        /\ Done(w) /\ req[w].visitor # NoVisitor /\ ~req[w].visitor.is_active
        /\ CallsOf(w) = [stage \in Stages |-> 1]
        /\ req[w].response.served /\ ~req[w].response.is_visitor
        /\ req[w].response.visitor = req[w].visitor.uuid

\* C19: for a visitor created with usage_count <= max_usages_allowed, in
\* every reachable state of the concurrent system in which no request is
\* between the Usage Limiter's first save and its limit test (and so none
\* between its load of the visitor and its last save), a stored usage_count
\* above max_usages_allowed comes with a stored is_active = false.
RevokedAtQuiescence ==
    \A v \in Visitors :
        NoneAtLimit(v) /\ db[v].usage_count > db[v].max_usages_allowed
            => ~db[v].is_active

\* C19 witness: no request is in flight; concurrent requests of visitor 1
\* have overwritten one another's count (more requests were counted than the
\* row shows), and the row is above its limit and inactive
RevokedAtQuiescenceReached ==
    /\ Quiescent
    /\ db[1].usage_count > db[1].max_usages_allowed
    /\ hist.counted[1] > db[1].usage_count
    /\ ~db[1].is_active

\* C20: wherever a request stands in the pipeline, a true visitor flag comes
\* with a context that holds a visitor.  A context that holds a visitor
\* comes with a false flag only for a request that has left the Usage
\* Limiter after tripping the limit: the visitor its context holds shows a
\* usage_count above max_usages_allowed and is_active false, and the request
\* made the limiter's two writes, the second of which stored is_active false.
ContextConsistency ==
    \A w \in Workers :
        LET r == req[w]
        IN  /\ r.is_visitor => r.visitor # NoVisitor
            /\ r.visitor # NoVisitor /\ ~r.is_visitor =>
                  /\ r.pc \in {"debug", "done"}
                  /\ r.visitor.usage_count > db[r.visitor.uuid].max_usages_allowed
                  /\ ~r.visitor.is_active
                  /\ r.io["count"].writes = 2

\* C20 witness: the 11th request of visitor 1 has ended with the flag false
\* and the context still holding the visitor, now inactive
ContextConsistencyReached ==
    \E w \in Workers :
        /\ CountedFor(w, 1) /\ ~req[w].is_visitor
        /\ req[w].visitor.usage_count = DEFAULT_MAX_LINK_USAGES_ALLOWED + 1
        /\ ~req[w].visitor.is_active /\ ~db[1].is_active
        /\ req[w].response.served

====
